---- MODULE Spec2Model ----
(***************************************************************************)
(* CLMI: a line-driven chat client that keeps a bounded conversation.      *)
(*                                                                         *)
(* Text.  A string is modelled as a sequence of lines (the pieces between  *)
(* "\n"); a line is a sequence of runs; a run [w |-> s, n |-> k] is the    *)
(* word s written k times.  Words of a line are separated by one blank.    *)
(* <<>> is the empty line, so <<<<>>>> is the empty string.                *)
(*                                                                         *)
(* trimMessages is @langchain/core's; src/src/index.ts:133-137 configures  *)
(* it with strategy 'last', allowPartial true, endOn 'human'.  Its steps   *)
(* (lastMaxTokens, firstMaxTokens, defaultTextSplitter) are modelled here  *)
(* as that configuration runs them: messages after the last human one are  *)
(* dropped, the rest is reversed, the longest prefix of the reversed list  *)
(* that tokenCounter accepts is kept, the next message may be kept in part *)
(* (its last lines), and the result is reversed back.  The trimmer works   *)
(* on a copy of the array it is given.  Message contents are strings; a    *)
(* content made of segments (ContentBlock[]) is normalized and estimated   *)
(* in a harness of its own.                                                *)
(*                                                                         *)
(* The 'line' handler is async: it runs up to its first await when the     *)
(* line is emitted and resumes when the awaited promise settles.  readline *)
(* does not wait for it, so several invocations can be suspended at once.  *)
(***************************************************************************)
EXTENDS Integers, Sequences, FiniteSets, TLC

VARIABLES
  \* the session (module-level state of index.ts)
  variant,      \* "agent" (src/src/index.ts) or "plain" (the older variant)
  bot,          \* BotDefinition
  compiledBot,  \* CompiledBot
  agent,        \* the tool-enabled agent: the systemPrompt it was created with
  conversation, \* the stored messages
  inflight,     \* invocations of the 'line' handler suspended at an await
  nlines,       \* 'line' events emitted so far
  closed,       \* term.close() was called
  exited,       \* process.exit(1) was called
  last,         \* history: the step just taken and the session before it
  sinceLoad,    \* history: a .load succeeded and no chat line came after it
  \* the pure-function harness: trimmer applied to a drawn conversation
  tin,          \* the conversation handed to the trimmer
  tbudget,      \* maxTokens of that call
  tout,         \* trimmer(tin)
  tout2,        \* trimmer(tout)
  tpc,          \* "input" | "trimmed" | "retrimmed"
  \* the pure-function harness: a content made of segments (ContentBlock[])
  cin,          \* the segments
  cstr,         \* contentToString(cin)
  cest,         \* estimateTokens(cin)
  cpc           \* "input" | "normalized" | "estimated"

cvars == <<cin, cstr, cest, cpc>>
tvars == <<tin, tbudget, tout, tout2, tpc, cvars>>
svars == <<variant, bot, compiledBot, agent, conversation, inflight, nlines,
           closed, exited, last, sinceLoad>>
vars == <<svars, tvars>>

-----------------------------------------------------------------------------
\* Bounds of the checked instances.
MaxLen == 3        \* messages in a drawn conversation
MaxBudget == 5     \* budgets 0..MaxBudget in the pure-function harness
MaxLinesIn == 3    \* input lines of a session
MaxBlocks == 3     \* segments of a drawn content

-----------------------------------------------------------------------------
\* Text helpers.

Run(w, n) == [w |-> w, n |-> n]
Words(n) == <<Run("w", n)>>          \* a line of n words

RECURSIVE LineWords(_)
\* number of words on a line
LineWords(line) ==
  IF line = <<>> THEN 0 ELSE Head(line).n + LineWords(Tail(line))

RECURSIVE TextWords(_)
TextWords(text) ==
  IF text = <<>> THEN 0 ELSE LineWords(Head(text)) + TextWords(Tail(text))

RECURSIVE Reverse(_)
Reverse(s) == IF s = <<>> THEN <<>> ELSE Append(Reverse(Tail(s)), Head(s))

Max(a, b) == IF a > b THEN a ELSE b

\* contentToString on a string content returns it unchanged (index.ts:96-98).
contentToString(content) == content

\* content.split(/\s+/).length: every word is a piece; a string that starts
\* (ends) with whitespace has an empty first (last) piece; "" is one piece.
SplitWhitespaceLength(text) ==
  IF text = <<<<>>>> THEN 1
  ELSE TextWords(text)
       + (IF Head(text) = <<>> THEN 1 ELSE 0)
       + (IF text[Len(text)] = <<>> THEN 1 ELSE 0)

estimateTokens(content) == SplitWhitespaceLength(contentToString(content))

-----------------------------------------------------------------------------
\* Messages.  tokenUsage is response_metadata.tokenUsage.totalTokens:
\* "absent" (no such key), "invalid" (Number(..) is NaN) or "numeric".

Msg(role, content, tokenUsage, totalTokens, toolCalls, toolCallId) ==
  [role |-> role, content |-> content, tokenUsage |-> tokenUsage,
   totalTokens |-> totalTokens, toolCalls |-> toolCalls,
   toolCallId |-> toolCallId]

HumanMessage(content) == Msg("human", content, "absent", 0, <<>>, 0)
ToolMessage(content, id) == Msg("tool", content, "absent", 0, <<>>, id)
AIMessage(content, tokenUsage, totalTokens, toolCalls) ==
  Msg("ai", content, tokenUsage, totalTokens, toolCalls, 0)

\* a reducer that takes the reported figure as the new total even when the
\* running total is already above it
CountStepTakesReported(tokens, msg) ==
  IF msg.tokenUsage = "numeric"
  THEN msg.totalTokens
  ELSE tokens + estimateTokens(msg.content)

\* a reducer that returns what a reported figure adds to the running total
\* instead of the new total
CountStepReturnsExcess(tokens, msg) ==
  IF msg.tokenUsage = "numeric"
  THEN (IF msg.totalTokens > tokens THEN msg.totalTokens - tokens ELSE tokens)
  ELSE tokens + estimateTokens(msg.content)

\* the reducer of tokenCounter
CountStep(tokens, msg) ==
  IF msg.tokenUsage = "numeric"
  THEN Max(msg.totalTokens, tokens)
  ELSE tokens + estimateTokens(msg.content)

RECURSIVE Reduce(_, _)
Reduce(msgs, tokens) ==
  IF msgs = <<>> THEN tokens
  ELSE Reduce(Tail(msgs), CountStep(tokens, Head(msgs)))

tokenCounter(msgs) == Reduce(msgs, 0)

-----------------------------------------------------------------------------
\* trimMessages, as configured at index.ts:133-137.

\* a line without its last / first word
DropLastWord(line) ==
  LET r == line[Len(line)]
      front == SubSeq(line, 1, Len(line) - 1)
  IN IF r.n = 1 THEN front ELSE Append(front, Run(r.w, r.n - 1))

DropFirstWord(line) ==
  LET r == Head(line)
  IN IF r.n = 1 THEN Tail(line) ELSE <<Run(r.w, r.n - 1)>> \o Tail(line)

\* two lines written one after the other with nothing between them: the last
\* word of a and the first word of b become one word
Glue(a, b) ==
  IF a = <<>> THEN b
  ELSE IF b = <<>> THEN a
  ELSE DropLastWord(a)
       \o <<Run(a[Len(a)].w \o Head(b).w, 1)>>
       \o DropFirstWord(b)

\* defaultTextSplitter splits at "\n" and leaves the "\n" on every piece but the
\* last; the 'last' partial strategy reverses the pieces and measures
\* pieces.join(""): for kept lines <<Lj, .., Ln>> that is Ln Ln-1 "\n" .. Lj "\n".
JoinReversed(lines) ==
  LET k == Len(lines)
  IN IF k = 1 THEN lines
     ELSE <<Glue(lines[k], lines[k - 1])>>
          \o [i \in 1..(k - 2) |-> lines[k - 1 - i]]
          \o << <<>> >>

RECURSIVE FirstFit(_, _, _)
\* the loop of firstMaxTokens: the longest prefix that fits, 0 when none does
FirstFit(messages, maxTokens, i) ==
  IF i >= Len(messages) THEN 0
  ELSE IF tokenCounter(SubSeq(messages, 1, Len(messages) - i)) <= maxTokens
       THEN Len(messages) - i
       ELSE FirstFit(messages, maxTokens, i + 1)

RECURSIVE PartialSplit(_, _, _, _)
\* the text-splitting loop: keep the last k lines of the excluded message,
\* k = numSplits-1 down to 1, and take the first k whose measure fits
PartialSplit(kept, excluded, maxTokens, k) ==
  IF k < 1 THEN kept
  ELSE
    LET text == excluded.content
        tailLines == SubSeq(text, Len(text) - k + 1, Len(text))
        measured == [excluded EXCEPT !.content = JoinReversed(tailLines)]
    IN IF tokenCounter(Append(kept, measured)) <= maxTokens
       THEN Append(kept, [excluded EXCEPT !.content = tailLines])
       ELSE PartialSplit(kept, excluded, maxTokens, k - 1)

\* the partial step is entered only when at least two messages were cut
PartialTried(idx, len) == idx < len - 1

firstMaxTokens(messages, maxTokens) ==
  LET idx == FirstFit(messages, maxTokens, 0)
      kept == SubSeq(messages, 1, idx)
  IN IF PartialTried(idx, Len(messages)) /\ messages[idx + 1].content # <<<<>>>>
     THEN PartialSplit(kept, messages[idx + 1], maxTokens,
                       Len(messages[idx + 1].content) - 1)
     ELSE kept

RECURSIVE EndOnHuman(_)
\* endOn 'human': every message after the last human one is dropped
EndOnHuman(messages) ==
  IF messages = <<>> \/ messages[Len(messages)].role = "human" THEN messages
  ELSE EndOnHuman(SubSeq(messages, 1, Len(messages) - 1))

\* lastMaxTokens that hands back the window most-recent-first
lastMaxTokensNotReversedBack(messages, maxTokens) ==
  firstMaxTokens(Reverse(EndOnHuman(messages)), maxTokens)

lastMaxTokens(messages, maxTokens) ==
  Reverse(firstMaxTokens(Reverse(EndOnHuman(messages)), maxTokens))

trimMessages(messages, maxTokens) == lastMaxTokens(messages, maxTokens)

maxTokens == 1000

trimmer(messages) == trimMessages(messages, maxTokens)

\* measure of the specification: tokenCounter over a window in its own order
measure(messages) == tokenCounter(messages)

-----------------------------------------------------------------------------
\* Contents made of segments.

\* A content that is not a string is a list of segments.  A segment is
\* [type, value], value being the property named by its type (c[c.type]): a
\* string for 'text' and, in this model, for 'image_url'.
Block(type, value) == [type |-> type, value |-> value]

RECURSIVE SupportedValues(_)
\* the loop of contentToString: result after the last segment
SupportedValues(content) ==
  IF content = <<>> THEN <<>>
  ELSE (IF Head(content).type \in {"image_url", "text"}
        THEN <<Head(content).value>> ELSE <<>>)
       \o SupportedValues(Tail(content))

\* line a, then sep, then line b, with no blank between them
GlueWith(a, sep, b) ==
  IF a = <<>> /\ b = <<>> THEN <<Run(sep, 1)>>
  ELSE IF a = <<>> THEN <<Run(sep \o Head(b).w, 1)>> \o DropFirstWord(b)
  ELSE IF b = <<>> THEN DropLastWord(a) \o <<Run(a[Len(a)].w \o sep, 1)>>
  ELSE DropLastWord(a)
       \o <<Run(a[Len(a)].w \o sep \o Head(b).w, 1)>>
       \o DropFirstWord(b)

RECURSIVE JsonEscape(_)
\* a string inside JSON: every "\n" is written as the two characters \ and n,
\* so the text becomes one line
JsonEscape(text) ==
  IF Len(text) = 1 THEN text[1]
  ELSE GlueWith(text[1], "\\n", JsonEscape(Tail(text)))

\* a line between double quotes, followed by end ("," or nothing)
QuoteLine(line, end) ==
  IF line = <<>> THEN <<Run("\"\"" \o end, 1)>>
  ELSE IF LineWords(line) = 1
       THEN <<Run("\"" \o Head(line).w \o "\"" \o end, 1)>>
       ELSE <<Run("\"" \o Head(line).w, 1)>>
            \o DropFirstWord(DropLastWord(line))
            \o <<Run(line[Len(line)].w \o "\"" \o end, 1)>>

\* JSON.stringify(result, undefined, '  ') of a list of strings: "[", one
\* quoted string per line, "]" (the indentation joins the line break as one
\* piece of whitespace and is not written down)
JsonStringify(result) ==
  << <<Run("[", 1)>> >>
  \o [i \in 1..Len(result) |->
        QuoteLine(JsonEscape(result[i]),
                  IF i < Len(result) THEN "," ELSE "")]
  \o << <<Run("]", 1)>> >>

\* what a call gives back: a string, or the value undefined
String(text) == [defined |-> TRUE, string |-> text]
Undefined == [defined |-> FALSE, string |-> <<<<>>>>]

\* contentToString on a list of segments (index.ts:100-116): with no supported
\* segment result[0] is undefined and JSON.stringify(undefined) is undefined
contentBlocksToString(content) ==
  LET result == SupportedValues(content)
  IN IF Len(result) > 1 THEN String(JsonStringify(result))
     ELSE IF Len(result) = 1 THEN String(result[1])
     ELSE Undefined

\* what estimateTokens does on a list of segments: undefined.split throws
Returned(n) == [threw |-> FALSE, tokens |-> n]
TypeError == [threw |-> TRUE, tokens |-> 0]

estimateBlocksTokens(content) ==
  LET string == contentBlocksToString(content)
  IN IF string.defined THEN Returned(SplitWhitespaceLength(string.string))
     ELSE TypeError

-----------------------------------------------------------------------------
\* Bot definitions and their files.

SystemMessage(content) == Msg("system", content, "absent", 0, <<>>, 0)

InputVar == Run("{{input}}", 1)

DefaultBot ==
  [systemMessage |-> "You are a helpful AI assistant.",
   initialPromptTemplate |-> <<<<InputVar>>>>]

\* JSON values as the files hold them: a key is a string, some other type, or
\* missing ("undefined")
JsonString(v) == [type |-> "string", value |-> v]
JsonNumber(v) == [type |-> "number", value |-> v]
JsonUndefined == [type |-> "undefined", value |-> 0]

FileSystem ==
  [path \in {"bot.json", "shape.json", "broken.json"} |->
    CASE path = "bot.json" ->
           [json |-> TRUE,
            systemMessage |-> JsonString("S"),
            initialPromptTemplate |-> JsonString(<<<<Run("Q:", 1), InputVar>>>>)]
      [] path = "shape.json" ->
           [json |-> TRUE,
            systemMessage |-> JsonString("S2"),
            initialPromptTemplate |-> JsonUndefined]
      [] OTHER ->
           [json |-> FALSE,
            systemMessage |-> JsonUndefined,
            initialPromptTemplate |-> JsonUndefined]]

\* botDefinitionSchema.parse(JSON.parse(await fs.readFile(file))): the read
\* rejects for a path that is no file (and for undefined), JSON.parse throws on
\* text that is not JSON, the schema throws unless both keys are strings
loadBotDefinition(file) ==
  IF file \notin DOMAIN FileSystem THEN [ok |-> FALSE, error |-> "read"]
  ELSE LET f == FileSystem[file]
       IN IF ~f.json THEN [ok |-> FALSE, error |-> "json"]
          ELSE IF f.systemMessage.type # "string"
                  \/ f.initialPromptTemplate.type # "string"
               THEN [ok |-> FALSE, error |-> "schema"]
               ELSE [ok |-> TRUE,
                     bot |-> [systemMessage |-> f.systemMessage.value,
                              initialPromptTemplate |->
                                f.initialPromptTemplate.value]]

\* Handlebars' escapeExpression on one word of the input
EscapeWord(w) ==
  CASE w = "a<b" -> "a&lt;b"
    [] w = "a&b" -> "a&amp;b"
    [] OTHER -> w

RECURSIVE RenderLine(_, _)
\* one template line with {{input}} replaced by the (escaped) input line
RenderLine(line, input) ==
  IF line = <<>> THEN <<>>
  ELSE (IF Head(line) = InputVar
        THEN [i \in 1..Len(input) |-> Run(EscapeWord(input[i].w), input[i].n)]
        ELSE <<Head(line)>>)
       \o RenderLine(Tail(line), input)

\* Handlebars.compile(template): the delegate, applied to { input }
Compile(template) == [template |-> template]
Render(delegate, input) ==
  [i \in 1..Len(delegate.template) |-> RenderLine(delegate.template[i], input)]

CompileBot(b) ==
  [systemMessage |-> b.systemMessage,
   initialPromptTemplate |-> Compile(b.initialPromptTemplate)]

createAgent(systemPrompt) == [systemPrompt |-> systemPrompt]
NoAgent == [systemPrompt |-> "none"]

-----------------------------------------------------------------------------
\* Input lines.

ExitLine == <<Run(".exit", 1)>>
ResetLine == <<Run(".reset", 1)>>
LoadLine(path) == <<Run(".load", 1), Run(path, 1)>>
LoadNoPath == <<Run(".load", 1)>>
ChatLines == { <<Run("hello", 1)>>, <<Run("w", 600)>> }
\* the user pressed Enter; a template rendered with it keeps the blanks around
\* {{input}}, which this text model does not write down
EmptyLine == <<>>
ResetWithWord == <<Run(".reset", 1), Run("now", 1)>>
LoadLines ==
  { LoadLine(p) : p \in {"bot.json", "shape.json", "broken.json", "missing.json"} }
  \cup { LoadNoPath }

InputLines == {ExitLine, ResetLine} \cup LoadLines \cup ChatLines

\* the lines typed in the sessions that handle one line at a time
SerialLines == InputLines \cup {EmptyLine, ResetWithWord}

\* input.trim().split(' ')[i]
Word(input, i) ==
  IF input = <<>> THEN (IF i = 0 THEN "" ELSE "undefined")
  ELSE IF i = 0 THEN Head(input).w
  ELSE IF Head(input).n >= 2 THEN Head(input).w
  ELSE IF Len(input) >= 2 THEN input[2].w
  ELSE "undefined"

IsExit(input) == input = ExitLine
IsReset(input) == ~IsExit(input) /\ input = ResetLine
IsLoad(input) == ~IsExit(input) /\ ~IsReset(input) /\ Word(input, 0) = ".load"
IsChat(input) == ~IsExit(input) /\ ~IsReset(input) /\ ~IsLoad(input)

-----------------------------------------------------------------------------
\* Replies of the model and of the agent.

PlainReplies ==
  { AIMessage(<<Words(300)>>, "absent", 0, <<>>),
    AIMessage(<<Words(200), Words(300)>>, "numeric", 900, <<>>) }

AgentReplies ==
  { << AIMessage(<<Words(300)>>, "absent", 0, <<>>) >>,
    << AIMessage(<<Words(1)>>, "numeric", 700, <<1>>),
       ToolMessage(<<Words(1)>>, 1),
       AIMessage(<<Words(200), Words(300)>>, "absent", 0, <<>>) >> }

-----------------------------------------------------------------------------
\* The session.

Session == [bot |-> bot, compiledBot |-> compiledBot, agent |-> agent,
            conversation |-> conversation, closed |-> closed,
            exited |-> exited]

\* history of a step; line is the input line of a 'line' event
LineStep(op, note, input) ==
  [op |-> op, note |-> note, line |-> input, busy |-> inflight # {},
   pre |-> Session]

Step(op, note) == LineStep(op, note, <<>>)

Handler(id, pc, path, sent) ==
  [id |-> id, pc |-> pc, path |-> path, arg |-> <<>>, frozen |-> FALSE,
   sent |-> sent]

ContentHarnessIdle ==
  /\ cin = <<>>
  /\ cstr = Undefined
  /\ cest = TypeError
  /\ cpc = "idle"

TrimHarnessIdle ==
  /\ tin = <<>>
  /\ tbudget = 0
  /\ tout = <<>>
  /\ tout2 = <<>>
  /\ tpc = "idle"
  /\ ContentHarnessIdle

StartupBots ==
  {DefaultBot}
  \cup { loadBotDefinition(p).bot : p \in {q \in DOMAIN FileSystem :
                                             loadBotDefinition(q).ok} }

SessionInit(v, b) ==
  /\ variant = v
  /\ bot = b
  /\ compiledBot = CompileBot(b)
  /\ agent = IF v = "agent" THEN createAgent(DefaultBot.systemMessage)
                            ELSE NoAgent
  /\ conversation = <<>>
  /\ inflight = {}
  /\ nlines = 0
  /\ closed = FALSE
  /\ exited = FALSE
  /\ sinceLoad = FALSE
  /\ last = [op |-> "start", note |-> "", line |-> <<>>, busy |-> FALSE,
             pre |-> [bot |-> b, compiledBot |-> CompileBot(b),
                      agent |-> IF v = "agent"
                                THEN createAgent(DefaultBot.systemMessage)
                                ELSE NoAgent,
                      conversation |-> <<>>, closed |-> FALSE,
                      exited |-> FALSE]]

Init ==
  /\ \E v \in {"plain", "agent"}, b \in StartupBots : SessionInit(v, b)
  /\ TrimHarnessIdle

\* an await on the trimmer holds the array it was given: when the variable
\* conversation is assigned another array, the held one keeps its messages
Rebind(hs, old) ==
  { IF h.pc = "trim" /\ ~h.frozen
    THEN [h EXCEPT !.arg = old, !.frozen = TRUE] ELSE h : h \in hs }

CanEmitLine == ~closed /\ ~exited /\ nlines < MaxLinesIn

\* promise continuations run before the next I/O callback
MicrotasksDrained == \A h \in inflight : h.pc # "trim"

\* the message list a chat turn sends
Outgoing(window) ==
  IF variant = "plain"
  THEN <<SystemMessage(compiledBot.systemMessage)>> \o window
  ELSE window

LineExit(lines) ==
  /\ CanEmitLine
  /\ \E input \in lines :
       /\ IsExit(input)
       /\ closed' = TRUE
       /\ nlines' = nlines + 1
       /\ last' = LineStep("exit", "", input)
  /\ UNCHANGED <<sinceLoad, variant, bot, compiledBot, agent, conversation, inflight,
                 exited, tvars>>

\* a .reset that also goes back to the built-in bot
LineResetRestoresDefaultBot(lines) ==
  /\ CanEmitLine
  /\ \E input \in lines :
       /\ IsReset(input)
       /\ conversation' = <<>>
       /\ inflight' = Rebind(inflight, conversation)
       /\ nlines' = nlines + 1
       /\ last' = LineStep("reset", "", input)
  /\ bot' = DefaultBot
  /\ compiledBot' = CompileBot(DefaultBot)
  /\ UNCHANGED <<sinceLoad, variant, agent, closed, exited, tvars>>

LineReset(lines) ==
  /\ CanEmitLine
  /\ \E input \in lines :
       /\ IsReset(input)
       /\ conversation' = <<>>
       /\ inflight' = Rebind(inflight, conversation)
       /\ nlines' = nlines + 1
       /\ last' = LineStep("reset", "", input)
  /\ UNCHANGED <<sinceLoad, variant, bot, compiledBot, agent, closed, exited, tvars>>

LineLoad(lines) ==
  /\ CanEmitLine
  /\ \E input \in lines :
       /\ IsLoad(input)
       /\ inflight' = inflight
                      \cup {Handler(nlines + 1, "load", Word(input, 1), <<>>)}
       /\ nlines' = nlines + 1
       /\ last' = LineStep("load", Word(input, 1), input)
  /\ UNCHANGED <<sinceLoad, variant, bot, compiledBot, agent, conversation, closed,
                 exited, tvars>>

LoadResolved(h) ==
  /\ ~exited
  /\ MicrotasksDrained
  /\ h.pc = "load"
  /\ loadBotDefinition(h.path).ok
  /\ bot' = loadBotDefinition(h.path).bot
  /\ compiledBot' = CompileBot(bot')
  /\ agent' = IF variant = "agent" THEN createAgent(bot'.systemMessage)
                                   ELSE agent
  /\ conversation' = <<>>
  /\ inflight' = Rebind(inflight \ {h}, conversation)
  /\ last' = Step("loaded", h.path)
  /\ sinceLoad' = TRUE
  /\ UNCHANGED <<variant, nlines, closed, exited, tvars>>

\* a failed .load that clears the conversation all the same
LoadRejectedClearsConversation(h) ==
  /\ ~exited
  /\ MicrotasksDrained
  /\ h.pc = "load"
  /\ ~loadBotDefinition(h.path).ok
  /\ conversation' = <<>>
  /\ inflight' = Rebind(inflight \ {h}, conversation)
  /\ last' = Step("loadFailed", loadBotDefinition(h.path).error)
  /\ UNCHANGED <<sinceLoad, variant, bot, compiledBot, agent, nlines,
                 closed, exited, tvars>>

LoadRejected(h) ==
  /\ ~exited
  /\ MicrotasksDrained
  /\ h.pc = "load"
  /\ ~loadBotDefinition(h.path).ok
  /\ inflight' = inflight \ {h}
  /\ last' = Step("loadFailed", loadBotDefinition(h.path).error)
  /\ UNCHANGED <<sinceLoad, variant, bot, compiledBot, agent, conversation, nlines,
                 closed, exited, tvars>>

LineChatFirst(lines) ==
  /\ CanEmitLine
  /\ conversation = <<>>
  /\ \E input \in lines :
       /\ IsChat(input)
       /\ conversation' =
            <<HumanMessage(Render(compiledBot.initialPromptTemplate, input))>>
       /\ inflight' = inflight
            \cup {Handler(nlines + 1, "invoke", "undefined",
                          Outgoing(<<conversation'[1]>>))}
       /\ nlines' = nlines + 1
       /\ last' = LineStep("chatFirst", "", input)
  /\ sinceLoad' = FALSE
  /\ UNCHANGED <<variant, bot, compiledBot, agent, closed, exited, tvars>>

LineChatNext(lines) ==
  /\ CanEmitLine
  /\ conversation # <<>>
  /\ \E input \in lines :
       /\ IsChat(input)
       /\ conversation' = Append(conversation, HumanMessage(<<input>>))
       /\ inflight' = inflight
            \cup {Handler(nlines + 1, "trim", "undefined", <<>>)}
       /\ nlines' = nlines + 1
       /\ last' = LineStep("chatNext", "", input)
  /\ sinceLoad' = FALSE
  /\ UNCHANGED <<variant, bot, compiledBot, agent, closed, exited, tvars>>

\* a continuation turn that sends the trimmed window and leaves the stored
\* conversation as it was
TrimmedNotStored(h) ==
  /\ ~exited
  /\ h.pc = "trim"
  /\ inflight' = (inflight \ {h})
       \cup {[h EXCEPT !.pc = "invoke", !.arg = <<>>, !.frozen = FALSE,
                       !.sent = Outgoing(trimmer(IF h.frozen THEN h.arg
                                                 ELSE conversation))]}
  /\ last' = Step("trim", "")
  /\ UNCHANGED <<sinceLoad, variant, bot, compiledBot, agent, conversation,
                 nlines, closed, exited, tvars>>

Trimmed(h) ==
  /\ ~exited
  /\ h.pc = "trim"
  /\ conversation' = trimmer(IF h.frozen THEN h.arg ELSE conversation)
  /\ inflight' = Rebind(inflight \ {h}, conversation)
       \cup {[h EXCEPT !.pc = "invoke", !.arg = <<>>, !.frozen = FALSE,
                       !.sent = Outgoing(conversation')]}
  /\ last' = Step("trim", "")
  /\ UNCHANGED <<sinceLoad, variant, bot, compiledBot, agent, nlines, closed, exited,
                 tvars>>

\* what agent.invoke resolves to: the messages it was given, then the new ones
AgentResult(sent, batch) == [messages |-> sent \o batch]

RECURSIVE WithoutToolResults(_)
WithoutToolResults(msgs) ==
  IF msgs = <<>> THEN <<>>
  ELSE (IF Head(msgs).role = "tool" THEN <<>> ELSE <<Head(msgs)>>)
       \o WithoutToolResults(Tail(msgs))

\* new messages from which the tool results are left out
NewMessagesWithoutToolResults(res, inputMessageCount) ==
  WithoutToolResults(
    SubSeq(res.messages, inputMessageCount + 1, Len(res.messages)))

NewMessages(res, inputMessageCount) ==
  SubSeq(res.messages, inputMessageCount + 1, Len(res.messages))

\* a reply that is assigned to the conversation instead of pushed onto it
RepliedOverwrites(h) ==
  /\ ~exited
  /\ MicrotasksDrained
  /\ h.pc = "invoke"
  /\ \/ /\ variant = "plain"
        /\ \E res \in PlainReplies : conversation' = <<res>>
     \/ /\ variant = "agent"
        /\ \E batch \in AgentReplies :
             conversation' = NewMessages(AgentResult(h.sent, batch), Len(h.sent))
  /\ inflight' = Rebind(inflight \ {h}, conversation)
  /\ last' = Step("reply", "")
  /\ UNCHANGED <<sinceLoad, variant, bot, compiledBot, agent, nlines, closed,
                 exited, tvars>>

Replied(h) ==
  /\ ~exited
  /\ MicrotasksDrained
  /\ h.pc = "invoke"
  /\ \/ /\ variant = "plain"
        /\ \E res \in PlainReplies :
             conversation' = Append(conversation, res)
     \/ /\ variant = "agent"
        /\ \E batch \in AgentReplies :
             conversation' = conversation
               \o NewMessages(AgentResult(h.sent, batch), Len(h.sent))
  /\ inflight' = inflight \ {h}
  /\ last' = Step("reply", "")
  /\ UNCHANGED <<sinceLoad, variant, bot, compiledBot, agent, nlines, closed, exited,
                 tvars>>

\* a failed call that is logged and leaves the controller running
InvokeFailedKeepsRunning(h) ==
  /\ ~exited
  /\ MicrotasksDrained
  /\ h.pc = "invoke"
  /\ inflight' = inflight \ {h}
  /\ last' = Step("fatal", "")
  /\ UNCHANGED <<sinceLoad, variant, bot, compiledBot, agent, conversation,
                 nlines, closed, exited, tvars>>

InvokeFailed(h) ==
  /\ ~exited
  /\ MicrotasksDrained
  /\ h.pc = "invoke"
  /\ exited' = TRUE
  /\ last' = Step("fatal", "")
  /\ UNCHANGED <<sinceLoad, variant, bot, compiledBot, agent, conversation, inflight,
                 nlines, closed, tvars>>

Next ==
  \/ LineExit(InputLines)
  \/ LineReset(InputLines)
  \/ LineLoad(InputLines)
  \/ LineChatFirst(InputLines)
  \/ LineChatNext(InputLines)
  \/ \E h \in inflight : LoadResolved(h)
  \/ \E h \in inflight : LoadRejected(h)
  \/ \E h \in inflight : Trimmed(h)
  \/ \E h \in inflight : Replied(h)
  \/ \E h \in inflight : InvokeFailed(h)

Spec == Init /\ [][Next]_vars

\* the same program when every line is typed only after the previous one was
\* fully handled
NextSerial ==
  \/ inflight = {} /\ LineExit(SerialLines)
  \/ inflight = {} /\ LineReset(SerialLines)
  \/ inflight = {} /\ LineLoad(SerialLines)
  \/ inflight = {} /\ LineChatFirst(SerialLines)
  \/ inflight = {} /\ LineChatNext(SerialLines)
  \/ \E h \in inflight : LoadResolved(h)
  \/ \E h \in inflight : LoadRejected(h)
  \/ \E h \in inflight : Trimmed(h)
  \/ \E h \in inflight : Replied(h)
  \/ \E h \in inflight : InvokeFailed(h)

SpecSerial == Init /\ [][NextSerial]_vars

-----------------------------------------------------------------------------
\* The pure-function harness.

Contents == { <<Words(1)>>, <<Words(2)>>, <<Words(2), Words(1)>> }
ReplyContents == { <<Words(1)>>, <<Words(2), Words(1)>> }
Usages == {2, 4}

HarnessMessages ==
  { HumanMessage(c) : c \in Contents }
  \cup { ToolMessage(<<Words(1)>>, 1) }
  \cup { AIMessage(c, u, 0, <<>>) : c \in ReplyContents, u \in {"absent", "invalid"} }
  \cup { AIMessage(c, "numeric", n, <<>>) : c \in ReplyContents, n \in Usages }

HarnessConversations == UNION { [1..n -> HarnessMessages] : n \in 0..MaxLen }

TInit ==
  /\ SessionInit("plain", DefaultBot)
  /\ tin \in HarnessConversations
  /\ tbudget \in 0..MaxBudget
  /\ tout = <<>>
  /\ tout2 = <<>>
  /\ tpc = "input"
  /\ ContentHarnessIdle

TrimOnce ==
  /\ tpc = "input"
  /\ tout' = trimMessages(tin, tbudget)
  /\ tpc' = "trimmed"
  /\ UNCHANGED <<tin, tbudget, tout2, svars, cvars>>

TrimAgain ==
  /\ tpc = "trimmed"
  /\ tout2' = trimMessages(tout, tbudget)
  /\ tpc' = "retrimmed"
  /\ UNCHANGED <<tin, tbudget, tout, svars, cvars>>

TNext == TrimOnce \/ TrimAgain

SpecTrim == TInit /\ [][TNext]_vars

-----------------------------------------------------------------------------
\* The harness of contents made of segments.

Blocks ==
  { Block("text", t) : t \in {<<Words(1)>>, <<Words(2), Words(1)>>} }
  \cup { Block("image_url", <<<<Run("http://host/a.png", 1)>>>>),
         Block("tool_use", <<<<>>>>) }

DrawnContents == UNION { [1..n -> Blocks] : n \in 0..MaxBlocks }

CInit ==
  /\ SessionInit("plain", DefaultBot)
  /\ tin = <<>>
  /\ tbudget = 0
  /\ tout = <<>>
  /\ tout2 = <<>>
  /\ tpc = "idle"
  /\ cin \in DrawnContents
  /\ cstr = Undefined
  /\ cest = TypeError
  /\ cpc = "input"

Normalize ==
  /\ cpc = "input"
  /\ cstr' = contentBlocksToString(cin)
  /\ cpc' = "normalized"
  /\ UNCHANGED <<cin, cest, svars, tin, tbudget, tout, tout2, tpc>>

Estimate ==
  /\ cpc = "normalized"
  /\ cest' = estimateBlocksTokens(cin)
  /\ cpc' = "estimated"
  /\ UNCHANGED <<cin, cstr, svars, tin, tbudget, tout, tout2, tpc>>

CNext == Normalize \/ Estimate

SpecContent == CInit /\ [][CNext]_vars

-----------------------------------------------------------------------------
\* Properties of the trimmer (checked under SpecTrim).

IsSuffix(r, c) ==
  Len(r) <= Len(c) /\ r = SubSeq(c, Len(c) - Len(r) + 1, Len(c))

HasReportedUsage(msgs) == \E i \in 1..Len(msgs) : msgs[i].tokenUsage = "numeric"

\* C1: for every conversation c and budget B, measure(trim(c, B)) <= B or
\* trim(c, B) has exactly one message.
C1_TrimFitsBudget ==
  tpc # "input" => (measure(tout) <= tbudget \/ Len(tout) = 1)

\* C2: for every conversation c and budget B, a non-empty trim(c, B) starts
\* with a human message.
C2_TrimStartsOnHuman ==
  (tpc # "input" /\ tout # <<>>) => tout[1].role = "human"

\* C3: for every non-empty c and budget B, trim(c, B) is a non-empty suffix of
\* c, and it is exactly the most recent message when that message alone costs
\* more than B.
C3_TrimNeverEmpty ==
  (tpc # "input" /\ tin # <<>>) =>
    /\ tout # <<>>
    /\ IsSuffix(tout, tin)
    /\ (measure(<<tin[Len(tin)]>>) > tbudget => tout = <<tin[Len(tin)]>>)

-----------------------------------------------------------------------------
\* Properties of the session.

SessionData(x) ==
  [bot |-> x.bot, compiledBot |-> x.compiledBot, agent |-> x.agent,
   conversation |-> x.conversation]

LineOps == {"exit", "reset", "load", "chatFirst", "chatNext"}

\* C5 (I1): in every reachable state the stored conversation is empty or starts
\* with a human message, and no system message is stored in it.
C5_StoredStartsOnHuman ==
  /\ conversation # <<>> => conversation[1].role = "human"
  /\ \A i \in 1..Len(conversation) : conversation[i].role # "system"

\* C6 (I3), as claimed: the length of the stored conversation decreases only in
\* a .reset, which empties it.
C6_ShrinksOnlyOnReset ==
  Len(conversation) < Len(last.pre.conversation) =>
    (last.op = "reset" /\ conversation = <<>>)

\* C6, amended: the length of the stored conversation decreases only in a
\* .reset or a successful .load, which empty it, or in the trim of a
\* continuation chat turn.
C6_ShrinksOnlyOnResetLoadTrim ==
  Len(conversation) < Len(last.pre.conversation) =>
    \/ last.op \in {"reset", "loaded"} /\ conversation = <<>>
    \/ last.op = "trim"

\* C6 witness: a trim that cut the stored conversation.
C6_Witness ==
  /\ last.op = "trim"
  /\ conversation # <<>>
  /\ Len(conversation) < Len(last.pre.conversation)

\* C7: turns never overlap; a line is handled only when no earlier line is
\* still being handled.
C7_TurnsNeverOverlap ==
  last.op \in LineOps => ~last.busy

\* C8: a failed .load (missing file, invalid JSON, wrong shape, no path) leaves
\* bot definition, compiled bot, agent and conversation as they were, and does
\* not terminate the controller.
C8_FailedLoadChangesNothing ==
  last.op = "loadFailed" =>
    /\ SessionData(Session) = SessionData(last.pre)
    /\ closed = last.pre.closed
    /\ exited = last.pre.exited

\* C8 witness: a .load of a file of the wrong shape failed in a running
\* session that has a non-empty conversation.
C8_Witness ==
  /\ last.op = "loadFailed"
  /\ last.note = "schema"
  /\ conversation # <<>>
  /\ ~closed /\ ~exited

\* C9: handling .reset leaves the stored conversation empty, the bot
\* definition, compiled bot and agent unchanged, and the controller running.
C9_ResetClearsOnlyConversation ==
  last.op = "reset" =>
    /\ conversation = <<>>
    /\ bot = last.pre.bot
    /\ compiledBot = last.pre.compiledBot
    /\ agent = last.pre.agent
    /\ ~closed /\ ~exited

\* C9 witness: a .reset handled with messages stored under a loaded bot.
C9_Witness ==
  /\ last.op = "reset"
  /\ Len(last.pre.conversation) >= 2
  /\ bot # DefaultBot

\* C10: after a successful .load, which replaces the compiled bot and empties
\* the conversation in one step, the conversation stays empty until the next
\* chat line, so that line is an initial turn rendered with the new template
\* and no message of the previous bot is stored.
C10_LoadStartsAfresh ==
  /\ last.op = "loaded" =>
       /\ compiledBot = CompileBot(bot)
       /\ bot = loadBotDefinition(last.note).bot
       /\ conversation = <<>>
  /\ sinceLoad => conversation = <<>>


-----------------------------------------------------------------------------
\* Properties of the measure (checked under SpecTrim, on the drawn tin).

RECURSIVE SumEstimates(_)
SumEstimates(msgs) ==
  IF msgs = <<>> THEN 0
  ELSE estimateTokens(Head(msgs).content) + SumEstimates(Tail(msgs))

Prefix(msgs, k) == SubSeq(msgs, 1, k)

\* C11: measure is the left-to-right running total: a message with a valid
\* numeric reported usage r takes the total t to max(t, r), any other message
\* (one with non-numeric reported usage too) adds its estimate; with no
\* numeric usage anywhere the measure is the sum of the estimates, and the
\* running total never decreases from one message to the next.
C11_MeasureIsRunningTotal ==
  tpc = "trimmed" =>
    /\ measure(<<>>) = 0
    /\ \A k \in 1..Len(tin) :
         LET t == measure(Prefix(tin, k - 1))
             next == measure(Prefix(tin, k))
             r == tin[k].totalTokens
         IN /\ tin[k].tokenUsage = "numeric" =>
                 next = (IF r > t THEN r ELSE t)
            /\ tin[k].tokenUsage # "numeric" =>
                 next = t + estimateTokens(tin[k].content)
            /\ next >= t
    /\ ~HasReportedUsage(tin) => measure(tin) = SumEstimates(tin)

\* C11 witness: a measured conversation in which a message reports less than
\* the running total before it, and another carries a non-numeric usage.
C11_Witness ==
  /\ tpc = "trimmed"
  /\ \E k \in 1..Len(tin) :
       /\ tin[k].tokenUsage = "numeric"
       /\ tin[k].totalTokens < measure(Prefix(tin, k - 1))
  /\ \E k \in 1..Len(tin) : tin[k].tokenUsage = "invalid"


\* the last k messages
Suffix(msgs, k) == SubSeq(msgs, Len(msgs) - k + 1, Len(msgs))

Fits(msgs, budget) == measure(msgs) <= budget

\* the number of messages of the longest suffix that fits
LongestFittingSuffix(msgs, budget) ==
  CHOOSE k \in 0..Len(msgs) :
    /\ Fits(Suffix(msgs, k), budget)
    /\ \A j \in 0..Len(msgs) : Fits(Suffix(msgs, j), budget) => j <= k

RECURSIVE DropOldestUntilFits(_, _)
\* the number of messages left when the oldest one is dropped again and again
\* until the rest fits
DropOldestUntilFits(msgs, budget) ==
  IF msgs = <<>> \/ Fits(msgs, budget) THEN Len(msgs)
  ELSE DropOldestUntilFits(Tail(msgs), budget)

\* C20: the measure of a suffix of a conversation is at most the measure of
\* any longer suffix of it; so the suffixes that fit a budget are closed under
\* shortening, and the longest suffix that fits is the one reached by dropping
\* the oldest message until the cost first fits.
C20_ShorterSuffixCostsNoMore ==
  tpc = "trimmed" =>
    /\ \A i \in 0..Len(tin) : \A j \in i..Len(tin) :
         /\ measure(Suffix(tin, i)) <= measure(Suffix(tin, j))
         /\ Fits(Suffix(tin, j), tbudget) => Fits(Suffix(tin, i), tbudget)
    /\ LongestFittingSuffix(tin, tbudget) = DropOldestUntilFits(tin, tbudget)

\* C20 witness: a conversation with reported usage that does not fit as a
\* whole and of which a non-empty suffix fits.
C20_Witness ==
  /\ tpc = "trimmed"
  /\ HasReportedUsage(tin)
  /\ ~Fits(tin, tbudget)
  /\ DropOldestUntilFits(tin, tbudget) >= 1


-----------------------------------------------------------------------------
\* Properties of a chat turn.

\* the invocation that has just sent its messages
Sending(h) == h \in inflight /\ h.pc = "invoke"

\* C12: a chat line handled when the conversation is empty stores, as the only
\* message, a human message whose content is the initial prompt template
\* rendered with the line ('Q: {{input}}' and 'hello' give 'Q: hello'); a chat
\* line handled when the conversation is not empty appends the raw line as a
\* human message, and the conversation is then overwritten with
\* trim(conversation, 1000), which is what is sent.
C12_ChatTurnRendersOrTrims ==
  /\ last.op = "chatFirst" =>
       /\ Len(conversation) = 1
       /\ conversation[1].role = "human"
       /\ conversation[1].content =
            Render(last.pre.compiledBot.initialPromptTemplate, last.line)
       /\ (/\ last.pre.bot.initialPromptTemplate = <<<<Run("Q:", 1), InputVar>>>>
           /\ last.line = <<Run("hello", 1)>>)
          => conversation[1].content = <<<<Run("Q:", 1), Run("hello", 1)>>>>
       /\ \E h \in inflight : Sending(h) /\ h.sent = Outgoing(conversation)
  /\ last.op = "chatNext" =>
       conversation = Append(last.pre.conversation, HumanMessage(<<last.line>>))
  /\ last.op = "trim" =>
       /\ conversation = trimMessages(last.pre.conversation, 1000)
       /\ \E h \in inflight : Sending(h) /\ h.sent = Outgoing(conversation)

\* C12 witness: the trim of a continuation turn cut the stored conversation
\* and the cut window, after the system message, is what was sent.
C12_Witness ==
  /\ last.op = "trim"
  /\ variant = "plain"
  /\ conversation # <<>>
  /\ conversation # last.pre.conversation
  /\ \E h \in inflight :
       Sending(h) /\ Len(h.sent) = Len(conversation) + 1


\* the conversation window among the messages an invocation sent
Window(h) == IF variant = "plain" THEN Tail(h.sent) ELSE h.sent

\* C13: every conversation window handed to the model or the agent on a chat
\* turn measures at most 1000 tokens, unless it is a single message.
C13_SentWindowFitsBudget ==
  \A h \in inflight :
    h.pc = "invoke" =>
      (measure(Window(h)) <= 1000 \/ Len(Window(h)) = 1)


\* C14: when the completion or agent call of a chat turn fails the controller
\* terminates: the call is not retried, no reply is appended for the turn, and
\* nothing is handled afterwards (the failure is the last step ever taken).
C14_FailedCallTerminates ==
  /\ last.op = "fatal" =>
       /\ exited
       /\ conversation = last.pre.conversation
  /\ exited => last.op = "fatal"

\* C14 witness: a call failed while the user had lines left to type and
\* another line was still being handled.
C14_Witness ==
  /\ last.op = "fatal"
  /\ exited
  /\ ~closed
  /\ nlines < MaxLinesIn
  /\ Cardinality(inflight) >= 2


-----------------------------------------------------------------------------
\* Properties of the dispatch of a line.

\* C15: an empty input line and the literal .exit close the input stream; they
\* are not handled as a chat turn and do not change the conversation.
C15_EmptyLineOrExitCloses ==
  (last.op \in LineOps /\ last.line \in {EmptyLine, ExitLine}) =>
    /\ last.op = "exit"
    /\ closed
    /\ conversation = last.pre.conversation


\* C16: a line is dispatched by its first whitespace-delimited token: .exit,
\* .reset and .load are handled as that command whatever follows the token,
\* and every other line is handled as a chat message.
C16_DispatchByFirstToken ==
  last.op \in LineOps =>
    LET token == Word(last.line, 0)
    IN /\ token = ".exit" => last.op = "exit"
       /\ token = ".reset" => last.op = "reset"
       /\ token = ".load" => last.op = "load"
       /\ token \notin {".exit", ".reset", ".load"} =>
            last.op \in {"chatFirst", "chatNext"}


-----------------------------------------------------------------------------
\* Properties of the bot definition in use.

\* C17: on every chat turn, in both variants, the system instructions the
\* model runs under are the systemMessage of the active bot definition,
\* whether built in, loaded at startup with --file, or loaded by .load.
C17_RunsUnderActiveSystemMessage ==
  \A h \in inflight :
    h.pc = "invoke" =>
      IF variant = "plain"
      THEN Head(h.sent) = SystemMessage(bot.systemMessage)
      ELSE agent.systemPrompt = bot.systemMessage


-----------------------------------------------------------------------------
\* Properties of tool calls (agent variant).

\* every assistant message with tool calls is directly followed by one tool
\* result per call id, in call order
WellPaired(msgs) ==
  \A i \in 1..Len(msgs) :
    (msgs[i].role = "ai" /\ msgs[i].toolCalls # <<>>) =>
      LET calls == msgs[i].toolCalls
      IN /\ i + Len(calls) <= Len(msgs)
         /\ \A j \in 1..Len(calls) :
              /\ msgs[i + j].role = "tool"
              /\ msgs[i + j].toolCallId = calls[j]

\* C18 (I2): in the agent variant, with reply batches that are well paired,
\* after any turns and trims every assistant message with tool calls in the
\* stored conversation is directly followed by its tool results in call
\* order; and what a turn appends is exactly what the agent returned after the
\* messages it was sent.
C18_ToolCallsStayPaired ==
  variant = "agent" =>
    /\ \A batch \in AgentReplies : WellPaired(batch)
    /\ WellPaired(conversation)
    /\ last.op = "reply" =>
         \E batch \in AgentReplies :
           conversation = last.pre.conversation \o batch

\* C18 witness: a trim cut the stored conversation and kept an assistant
\* message with a tool call together with its result.
C18_Witness ==
  /\ variant = "agent"
  /\ last.op = "trim"
  /\ Len(conversation) < Len(last.pre.conversation)
  /\ \E i \in 1..Len(conversation) : conversation[i].toolCalls # <<>>


-----------------------------------------------------------------------------
\* Properties of contents made of segments (checked under SpecContent).

HasUnsupported(content) ==
  \E i \in 1..Len(content) : content[i].type \notin {"image_url", "text"}

RECURSIVE DropUnsupported(_)
DropUnsupported(content) ==
  IF content = <<>> THEN <<>>
  ELSE (IF Head(content).type \in {"image_url", "text"}
        THEN <<Head(content)>> ELSE <<>>)
       \o DropUnsupported(Tail(content))

\* C19: a content with segments of unsupported type never fails: the
\* unsupported segments are dropped, the content is normalized to a string and
\* estimated to a number, also when no supported segment is left.
C19_UnsupportedSegmentsNeverFail ==
  (cpc = "estimated" /\ HasUnsupported(cin)) =>
    /\ cstr.defined
    /\ cstr = contentBlocksToString(DropUnsupported(cin))
    /\ ~cest.threw

====
